---------------------------- MODULE Spec2Model ----------------------------
(***************************************************************************)
(* A model of lsofgraph.py: the batch pipeline                             *)
(*     parse_lsof -> kernel-thread filter -> find_links -> generate_dot    *)
(* that main() runs on the lines of `lsof -F` output.                      *)
(*                                                                         *)
(* Lines are the terminator-free strings main() hands to parse_lsof after  *)
(* splitlines() (line 28).  Python values are tagged: <<"int", n>>,        *)
(* <<"str", s>> and <<"None">>, so that 7 and "7" stay different objects.  *)
(* A dict whose iteration order the code depends on is a sequence of       *)
(* <<key, value>> pairs in insertion order; an attribute bag (only ever    *)
(* looked up) is a function from field characters to values.               *)
(***************************************************************************)
EXTENDS Integers, Sequences, FiniteSets, TLC

VARIABLES lines, pc, proc_info, file_info, kernel_thread_pids, links, out, err

vars == <<lines, pc, proc_info, file_info, kernel_thread_pids, links, out, err>>

-----------------------------------------------------------------------------
(* Python strings                                                          *)

Char(s, i) == SubSeq(s, i, i)

\* the characters '-' (45) to 'Z' (90) and 'a' (97) to 'z' (122), in code point order
Upper == "-./0123456789:;<=>?@ABCDEFGHIJKLMNOPQRSTUVWXYZ"

Lower == "abcdefghijklmnopqrstuvwxyz"

\* ord(c) for a character of Upper or Lower
CodePoint(c) ==
    IF \E i \in 1..Len(Upper) : Char(Upper, i) = c
    THEN 44 + (CHOOSE i \in 1..Len(Upper) : Char(Upper, i) = c)
    ELSE 96 + (CHOOSE i \in 1..Len(Lower) : Char(Lower, i) = c)

DigitChars == "0123456789"

IsDigitChar(c) == \E i \in 1..10 : Char(DigitChars, i) = c

DigitVal(c) == (CHOOSE i \in 1..10 : Char(DigitChars, i) = c) - 1

\* str.isdigit(): non-empty and every character a digit
IsDigit(s) == Len(s) > 0 /\ \A i \in 1..Len(s) : IsDigitChar(Char(s, i))

RECURSIVE ToInt(_)
\* int(s) for a digit string (Python integers are unbounded)
ToInt(s) ==
    IF Len(s) = 0 THEN 0
    ELSE 10 * ToInt(SubSeq(s, 1, Len(s) - 1)) + DigitVal(Char(s, Len(s)))

RECURSIVE IntToStr(_)
\* str(n) for n >= 0
IntToStr(n) ==
    IF n < 10 THEN Char(DigitChars, n + 1)
    ELSE IntToStr(n \div 10) \o Char(DigitChars, (n % 10) + 1)

\* a < b on Python strings: lexicographic by code point
StrLess(a, b) ==
    \E i \in 1..(Len(b)) :
        /\ \A j \in 1..(i - 1) : j <= Len(a) /\ Char(a, j) = Char(b, j)
        /\ \/ i = Len(a) + 1
           \/ i <= Len(a) /\ CodePoint(Char(a, i)) < CodePoint(Char(b, i))

\* mutant of Sorted2: the two endpoints are joined in the order they come
Unsorted2(pair) == pair

\* sorted() of a two-element list of strings
Sorted2(pair) == IF StrLess(pair[2], pair[1]) THEN <<pair[2], pair[1]>> ELSE pair

Separator == "->"

\* the positions at which '->' occurs in s
SepPositions(s) == {i \in 1..(Len(s) - 1) : SubSeq(s, i, i + 1) = Separator}

\* '->' in s
HasSeparator(s) == SepPositions(s) # {}

\* s.split('->', 1) for a string that contains '->'
Split1(s) ==
    LET i == CHOOSE k \in SepPositions(s) : \A m \in SepPositions(s) : k <= m
    IN  <<SubSeq(s, 1, i - 1), SubSeq(s, i + 2, Len(s))>>

\* r'\n'.join(pair): backslash, letter n
JoinKey(pair) == pair[1] \o "\\n" \o pair[2]

-----------------------------------------------------------------------------
(* Python values                                                           *)

None == <<"None">>

IntV(n) == <<"int", n>>

StrV(s) == <<"str", s>>

IsStr(v) == v[1] = "str"

\* lines 61-62: a value made only of digits becomes an int
Decode(s) == IF IsDigit(s) THEN IntV(ToInt(s)) ELSE StrV(s)

\* truth value of None, an int or a str
Truthy(v) ==
    CASE v[1] = "None" -> FALSE
      [] v[1] = "int"  -> v[2] # 0
      [] OTHER         -> v[2] # ""

\* `a or b`
Or(a, b) == IF Truthy(a) THEN a ELSE b

\* str(v), as str.format and % render a value
Str(v) ==
    CASE v[1] = "None" -> "None"
      [] v[1] = "int"  -> IntToStr(v[2])
      [] OTHER         -> v[2]

-----------------------------------------------------------------------------
(* dicts                                                                   *)

EmptyFields == [k \in {} |-> None]

\* fields.get(k)
Get(fields, k) == IF k \in DOMAIN fields THEN fields[k] ELSE None

\* fields[k] = v
SetField(fields, k, v) ==
    [x \in (DOMAIN fields) \cup {k} |-> IF x = k THEN v ELSE fields[x]]

\* insertion-ordered dict: k in d
Has(d, k) == \E i \in 1..Len(d) : d[i][1] = k

\* d[k] for a key that is present
At(d, k) == d[CHOOSE i \in 1..Len(d) : d[i][1] = k][2]

\* d[k] = v: an existing key keeps its position, a new key goes last
Put(d, k, v) ==
    IF Has(d, k)
    THEN [i \in 1..Len(d) |-> IF d[i][1] = k THEN <<k, v>> ELSE d[i]]
    ELSE Append(d, <<k, v>>)

\* defaultdict lookup d[k]: a missing key is inserted with the default
Touch(d, k, default) == IF Has(d, k) THEN d ELSE Append(d, <<k, default>>)

-----------------------------------------------------------------------------
(* parse_lsof                                                              *)

Unbound == <<"unbound">>

ParseStart ==
    [proc_info |-> <<>>, file_info |-> <<>>,
     current_pid |-> Unbound, fields |-> Unbound, err |-> "", at |-> 0]

\* mutant of UnboundLocal: a line without context is skipped
SkipLine(st) == st

\* lines 70 and 73 read a local that no 'p' line has bound yet
UnboundLocal(st) == [st EXCEPT !.err = "UnboundLocalError"]

\* one iteration of the loop at lines 58-73
ParseLine(st, line) ==
    IF Len(line) = 0
    THEN [st EXCEPT !.err = "IndexError"]
    ELSE
    LET field == Char(line, 1)
        value == Decode(SubSeq(line, 2, Len(line)))
    IN  IF field = "p"
        THEN [st EXCEPT !.current_pid = value,
                        !.proc_info = Touch(st.proc_info, value, EmptyFields),
                        !.fields = <<"proc", value>>]
        ELSE IF field = "f"
        THEN IF st.current_pid = Unbound
             THEN UnboundLocal(st)
             ELSE LET fi  == Touch(st.file_info, st.current_pid, <<>>)
                      fds == Touch(At(fi, st.current_pid), value, EmptyFields)
                  IN  [st EXCEPT !.file_info = Put(fi, st.current_pid, fds),
                                 !.fields = <<"file", st.current_pid, value>>]
        ELSE IF st.fields = Unbound
        THEN UnboundLocal(st)
        ELSE IF st.fields[1] = "proc"
        THEN LET pid == st.fields[2]
             IN  [st EXCEPT !.proc_info =
                     Put(st.proc_info, pid, SetField(At(st.proc_info, pid), field, value))]
        ELSE LET pid == st.fields[2]
                 fd  == st.fields[3]
                 fds == At(st.file_info, pid)
             IN  [st EXCEPT !.file_info =
                     Put(st.file_info, pid, Put(fds, fd, SetField(At(fds, fd), field, value)))]

RECURSIVE ParseFrom(_, _, _)
ParseFrom(st, ls, i) ==
    IF i > Len(ls) THEN st
    ELSE LET nxt == ParseLine(st, ls[i])
         IN  IF nxt.err # "" THEN [nxt EXCEPT !.at = i] ELSE ParseFrom(nxt, ls, i + 1)

\* parse_lsof(line_iter): the two tables, or the error and the line it is raised at
parse_lsof(ls) == ParseFrom(ParseStart, ls, 1)

-----------------------------------------------------------------------------
(* find_kernel_threads and the filter of main()                            *)

\* line 46: the descriptor 'txt' of type 'unknown'
IsKernelMarker(fd, fields) == fd = StrV("txt") /\ Get(fields, "t") = StrV("unknown")

\* set(find_kernel_threads(file_info))
find_kernel_threads(fi) ==
    {fi[i][1] : i \in {j \in 1..Len(fi) :
        \E k \in 1..Len(fi[j][2]) : IsKernelMarker(fi[j][2][k][1], fi[j][2][k][2])}}

\* mutant of FilterPids: every pid survives
KeepAllPids(fi, dropped) == fi

\* line 34: the dict comprehension keeps the order of the surviving pids
FilterPids(fi, dropped) == SelectSeq(fi, LAMBDA e : e[1] \notin dropped)

-----------------------------------------------------------------------------
(* find_links                                                              *)

NoLinks ==
    [unix |-> <<>>, fifo |-> <<>>, pipe |-> <<>>, tcp |-> <<>>, udp |-> <<>>, err |-> ""]

\* dest[key][pid] = fields on a defaultdict(dict)
File(part, key, pid, fields) ==
    LET p == Touch(part, key, <<>>)
    IN  Put(p, key, Put(At(p, key), pid, fields))

\* line 90: the unix key
UnixKey(fields) == Or(Get(fields, "i"), Get(fields, "d"))

\* lines 99 and 101: the canonical key of a network name
NetKey(n) == StrV(JoinKey(Sorted2(Split1(n))))

\* the body of the inner loop, lines 87-101
LinkOne(ln, pid, fields) ==
    IF "t" \notin DOMAIN fields THEN [ln EXCEPT !.err = "KeyError"]
    ELSE
    LET fd_type == fields["t"]
    IN  IF fd_type = StrV("unix")
        THEN [ln EXCEPT !.unix = File(ln.unix, UnixKey(fields), pid, fields)]
        ELSE IF fd_type = StrV("FIFO")
        THEN IF "i" \notin DOMAIN fields THEN [ln EXCEPT !.err = "KeyError"]
             ELSE [ln EXCEPT !.fifo = File(ln.fifo, fields["i"], pid, fields)]
        ELSE IF fd_type \in {StrV("IPv4"), StrV("IPv6")}
        THEN IF "n" \notin DOMAIN fields THEN [ln EXCEPT !.err = "KeyError"]
             ELSE IF ~IsStr(fields["n"]) THEN [ln EXCEPT !.err = "TypeError"]
             ELSE IF ~HasSeparator(fields["n"][2]) THEN ln
             ELSE IF "P" \notin DOMAIN fields THEN [ln EXCEPT !.err = "KeyError"]
             ELSE IF fields["P"] = StrV("TCP")
             THEN [ln EXCEPT !.tcp = File(ln.tcp, NetKey(fields["n"][2]), pid, fields)]
             ELSE [ln EXCEPT !.udp = File(ln.udp, NetKey(fields["n"][2]), pid, fields)]
        ELSE ln

\* the (pid, fields) pairs in the order the two loops at lines 85-86 visit them
RECURSIVE Items(_)
Items(fi) ==
    IF fi = <<>> THEN <<>>
    ELSE [k \in 1..Len(fi[1][2]) |-> <<fi[1][1], fi[1][2][k][2]>>] \o Items(Tail(fi))

RECURSIVE LinkFrom(_, _, _)
LinkFrom(ln, items, i) ==
    IF i > Len(items) THEN ln
    ELSE LET nxt == LinkOne(ln, items[i][1], items[i][2])
         IN  IF nxt.err # "" THEN nxt ELSE LinkFrom(nxt, items, i + 1)

\* find_links(file_info)
find_links(fi) == LinkFrom(NoLinks, Items(fi), 1)

-----------------------------------------------------------------------------
(* generate_dot                                                            *)

NoParent == 1

\* line 120
HasParentEdge(pid_parent) == Truthy(pid_parent) /\ pid_parent # IntV(NoParent)

\* template_edge with the ancestry styling of line 121
ParentEdge(pid_parent, pid) ==
    [a |-> "p" \o Str(pid_parent), b |-> "p" \o Str(pid), label |-> "",
     penwidth |-> 2, weight |-> 100, color |-> "gray60", dir |-> "none"]

\* lines 111-117: template_node
Node(pid, tags) ==
    [id |-> "p" \o Str(pid),
     label |-> Str(Or(Get(tags, "n"), Get(tags, "c"))) \o "\\n" \o Str(pid) \o " " \o Str(tags["L"]),
     fillcolor |-> IF tags["R"] = IntV(NoParent) THEN "grey70" ELSE "white"]

\* lines 113 and 115 raise KeyError on a process without R or L
NodeFails(tags) == "R" \notin DOMAIN tags \/ "L" \notin DOMAIN tags

\* lines 137-142
Direction(a) ==
    IF a = StrV("w") THEN "forward"
    ELSE IF a = StrV("r") THEN "backward"
    ELSE "both"

\* lines 124-129
conn_props ==
    <<[part |-> "unix", desc |-> "unix", color |-> "purple"],
      [part |-> "fifo", desc |-> "fifo", color |-> "green"],
      [part |-> "tcp",  desc |-> "tcp",  color |-> "red"],
      [part |-> "udp",  desc |-> "udp",  color |-> "orange"]>>

\* mutant of Realized: any shared key is drawn
AtLeastTwo(pids) == Len(pids) >= 2

\* line 133
Realized(pids) == Len(pids) = 2

\* line 136 raises KeyError when the first holder's descriptor has no 'a'
LinkFails(pids) == Realized(pids) /\ "a" \notin DOMAIN pids[1][2]

\* lines 134-146: template_edge for a realized link
LinkEdge(props, fd_name, pids) ==
    [a |-> "p" \o Str(pids[1][1]), b |-> "p" \o Str(pids[2][1]),
     label |-> props.desc \o ":\\n" \o Str(fd_name),
     penwidth |-> 1, weight |-> 10, color |-> props.color,
     dir |-> Direction(pids[1][2]["a"])]

RECURSIVE NodesOf(_, _)
\* the nodes list built by the loop at lines 110-117
NodesOf(pi, fi) ==
    IF fi = <<>> THEN <<>>
    ELSE <<Node(fi[1][1], At(pi, fi[1][1]))>> \o NodesOf(pi, Tail(fi))

RECURSIVE ParentEdgesOf(_, _)
\* the edges appended by the loop at lines 119-122
ParentEdgesOf(pi, fi) ==
    IF fi = <<>> THEN <<>>
    ELSE LET pid_parent == Get(At(pi, fi[1][1]), "R")
         IN  (IF HasParentEdge(pid_parent)
              THEN <<ParentEdge(pid_parent, fi[1][1])>> ELSE <<>>)
             \o ParentEdgesOf(pi, Tail(fi))

RECURSIVE PartEdges(_, _)
\* the edges of one partition, lines 132-147
PartEdges(props, part) ==
    IF part = <<>> THEN <<>>
    ELSE (IF Realized(part[1][2])
          THEN <<LinkEdge(props, part[1][1], part[1][2])>> ELSE <<>>)
         \o PartEdges(props, Tail(part))

\* generate_dot(...): the node and edge statements, or the error raised
generate_dot(pi, fi, ln) ==
    IF \E i \in 1..Len(fi) : NodeFails(At(pi, fi[i][1]))
    THEN [nodes |-> <<>>, edges |-> <<>>, err |-> "KeyError"]
    ELSE IF \E c \in 1..Len(conn_props) :
                \E k \in 1..Len(ln[conn_props[c].part]) :
                    LinkFails(ln[conn_props[c].part][k][2])
    THEN [nodes |-> <<>>, edges |-> <<>>, err |-> "KeyError"]
    ELSE [nodes |-> NodesOf(pi, fi),
          edges |-> ParentEdgesOf(pi, fi)
                    \o PartEdges(conn_props[1], ln[conn_props[1].part])
                    \o PartEdges(conn_props[2], ln[conn_props[2].part])
                    \o PartEdges(conn_props[3], ln[conn_props[3].part])
                    \o PartEdges(conn_props[4], ln[conn_props[4].part]),
          err |-> ""]

-----------------------------------------------------------------------------
(* main(): one action per call of lines 30-40                              *)

NoError == [kind |-> "", at |-> 0]

NoOutput == [nodes |-> <<>>, edges |-> <<>>]

\* line 30: proc_info, file_info = parse_lsof(lines)
Parse ==
    /\ pc = "start"
    /\ LET r == parse_lsof(lines)
       IN  IF r.err # ""
           THEN /\ pc' = "failed"
                /\ err' = [kind |-> r.err, at |-> r.at]
                /\ UNCHANGED <<proc_info, file_info>>
           ELSE /\ pc' = "parsed"
                /\ proc_info' = r.proc_info
                /\ file_info' = r.file_info
                /\ UNCHANGED err
    /\ UNCHANGED <<lines, kernel_thread_pids, links, out>>

\* lines 33-34: drop the kernel threads from file_info
FilterKernelThreads ==
    /\ pc = "parsed"
    /\ kernel_thread_pids' = find_kernel_threads(file_info)
    /\ file_info' = FilterPids(file_info, find_kernel_threads(file_info))
    /\ pc' = "filtered"
    /\ UNCHANGED <<lines, proc_info, links, out, err>>

\* line 37: unix, fifo, pipe, tcp, udp = find_links(file_info)
FindLinks ==
    /\ pc = "filtered"
    /\ LET r == find_links(file_info)
       IN  IF r.err # ""
           THEN /\ pc' = "failed"
                /\ err' = [kind |-> r.err, at |-> 0]
                /\ UNCHANGED links
           ELSE /\ pc' = "linked"
                /\ links' = r
                /\ UNCHANGED err
    /\ UNCHANGED <<lines, proc_info, file_info, kernel_thread_pids, out>>

\* lines 39-40: res = generate_dot(...); print(res)
GenerateDot ==
    /\ pc = "linked"
    /\ LET r == generate_dot(proc_info, file_info, links)
       IN  IF r.err # ""
           THEN /\ pc' = "failed"
                /\ err' = [kind |-> r.err, at |-> 0]
                /\ UNCHANGED out
           ELSE /\ pc' = "done"
                /\ out' = [nodes |-> r.nodes, edges |-> r.edges]
                /\ UNCHANGED err
    /\ UNCHANGED <<lines, proc_info, file_info, kernel_thread_pids, links>>

Next == Parse \/ FilterKernelThreads \/ FindLinks \/ GenerateDot

\* the state before line 30, for the input streams of `inputs`
InitWith(inputs) ==
    /\ lines \in inputs
    /\ pc = "start"
    /\ proc_info = <<>>
    /\ file_info = <<>>
    /\ kernel_thread_pids = {}
    /\ links = NoLinks
    /\ out = NoOutput
    /\ err = NoError

-----------------------------------------------------------------------------
(* input streams: concatenations of at most MaxBlocks blocks of lines      *)

MaxBlocks == 3

RECURSIVE Flatten(_)
Flatten(blocks) == IF blocks = <<>> THEN <<>> ELSE Head(blocks) \o Flatten(Tail(blocks))

Streams(B) == {Flatten(bs) : bs \in UNION {[1..n -> B] : n \in 0..MaxBlocks}}

\* process headers: a process with its parent (R) and its login (L)
P2 == <<"p2", "R1", "Lx">>

P3 == <<"p3", "R1", "Lx">>

P4 == <<"p4", "R1", "Ly">>

Heads == {P2, P3, P4}

With(heads, descs) == {h \o d : h \in heads, d \in descs}

-----------------------------------------------------------------------------
(* what the claims speak of                                                *)

\* indices of a sequence that satisfy a test
Where(seq, Test(_)) == {i \in 1..Len(seq) : Test(seq[i])}

\* the descriptors (pid, fd, fields) of a file_info table
Descriptors(fi) ==
    UNION {{<<fi[i][1], fi[i][2][k][1], fi[i][2][k][2]>> : k \in 1..Len(fi[i][2])} :
              i \in 1..Len(fi)}

ChannelClasses == {"unix", "fifo", "tcp", "udp"}

IsNetType(t) == t \in {StrV("IPv4"), StrV("IPv6")}

\* the channel class a descriptor is correlated in, "" when in none
ClassOf(fields) ==
    LET t == Get(fields, "t")
        n == Get(fields, "n")
    IN  IF t = StrV("unix") THEN "unix"
        ELSE IF t = StrV("FIFO") THEN "fifo"
        ELSE IF IsNetType(t) /\ IsStr(n) /\ HasSeparator(n[2])
        THEN (IF Get(fields, "P") = StrV("TCP") THEN "tcp" ELSE "udp")
        ELSE ""

\* the resource key of a descriptor of a channel class
KeyOf(fields) ==
    LET c == ClassOf(fields)
    IN  IF c = "unix" THEN UnixKey(fields)
        ELSE IF c = "fifo" THEN Get(fields, "i")
        ELSE NetKey(fields["n"][2])

\* the pids of table fi that hold a descriptor under key k in class c
HoldersIn(fi, c, k) ==
    {d[1] : d \in {x \in Descriptors(fi) : ClassOf(x[3]) = c /\ KeyOf(x[3]) = k}}

\* the resource keys of class c among the descriptors of table fi
KeysOf(fi, c) == {KeyOf(d[3]) : d \in {x \in Descriptors(fi) : ClassOf(x[3]) = c}}

\* the retained pids that hold a descriptor under key k in class c
Holders(c, k) == HoldersIn(file_info, c, k)

\* the resource keys of class c among the retained descriptors
KeysIn(c) == KeysOf(file_info, c)

\* the tables parse_lsof builds from the input, before any filtering
Parsed == parse_lsof(lines)

\* the pids whose 'txt' descriptor has type 'unknown'
KernelPids ==
    {d[1] : d \in {x \in Descriptors(Parsed.file_info) :
                      x[2] = StrV("txt") /\ Get(x[3], "t") = StrV("unknown")}}

\* the pids that have a process record
ProcessPids == {Parsed.proc_info[i][1] : i \in 1..Len(Parsed.proc_info)}

IsChannelEdge(e) == e.dir # "none"

IsParentEdge(e) == e.dir = "none"

\* the emitted channel edges of class c for key k
EdgesFor(c, k) ==
    {i \in 1..Len(out.edges) :
        /\ IsChannelEdge(out.edges[i])
        /\ out.edges[i].label = c \o ":\\n" \o Str(k)}

NodeIds == {out.nodes[i].id : i \in 1..Len(out.nodes)}

PidId(pid) == "p" \o Str(pid)

-----------------------------------------------------------------------------
(* C1: processes 2, 3 and 4 share unix, FIFO, TCP and UDP resources        *)

U  == <<"f3", "tunix", "i5", "au">>

U2 == <<"f4", "tunix", "i5", "aw">>

U6 == <<"f3", "tunix", "i6", "ar">>

F  == <<"f5", "tFIFO", "i5", "ar">>

T  == <<"f6", "tIPv4", "PTCP", "nA:80->B:12", "au">>

D  == <<"f7", "tIPv6", "PUDP", "nA:80->B:12", "au">>

CardBlocks ==
    With(Heads, {U, F, T}) \cup {P2 \o U \o U2, P3 \o U6, P2 \o D, P3 \o D}

InitCard == InitWith(Streams(CardBlocks))

SpecCard == InitCard /\ [][Next]_vars

\* C1: in every output, each resource key of each channel class has exactly
\* one channel edge if exactly two distinct retained pids hold a descriptor
\* under it in that class, and none otherwise; the edge joins the two holders,
\* and there is no other channel edge.
CardinalityGate ==
    pc = "done" =>
        /\ \A c \in ChannelClasses : \A k \in KeysIn(c) :
              IF Cardinality(Holders(c, k)) = 2
              THEN /\ Cardinality(EdgesFor(c, k)) = 1
                   /\ \A i \in EdgesFor(c, k) :
                         {out.edges[i].a, out.edges[i].b} = {PidId(h) : h \in Holders(c, k)}
              ELSE EdgesFor(c, k) = {}
        /\ Cardinality(Where(out.edges, IsChannelEdge)) =
              Cardinality({ck \in {<<c, k>> : c \in ChannelClasses, k \in UNION {KeysIn(x) : x \in ChannelClasses}} :
                              Cardinality(Holders(ck[1], ck[2])) = 2})

\* C1 witness: a unix key with two holders, one of them through two
\* descriptors, yields the only channel edge while a third process holds the
\* same key value as a FIFO
CardinalityGateWitness ==
    /\ pc = "done"
    /\ Cardinality(Holders("unix", IntV(5))) = 2
    /\ Cardinality({d \in Descriptors(file_info) : ClassOf(d[3]) = "unix" /\ KeyOf(d[3]) = IntV(5)}) = 3
    /\ Cardinality(Holders("fifo", IntV(5))) = 1
    /\ Cardinality(Where(out.edges, IsChannelEdge)) = 1

-----------------------------------------------------------------------------
(* C2: kernel threads next to real processes that share a unix socket      *)

K    == <<"ftxt", "tunknown">>

KU   == <<"ftxt", "tunknown", "f3", "tunix", "i5", "au">>

Ktxt == <<"ftxt", "tREG">>

X    == <<"f9", "tunknown">>

KernelBlocks ==
    With(Heads, {U}) \cup With({P3, P4}, {K, KU}) \cup {P4 \o Ktxt, P2 \o X}

InitKernel == InitWith(Streams(KernelBlocks))

SpecKernel == InitKernel /\ [][Next]_vars

\* C2: a pid whose 'txt' descriptor has type 'unknown' gets no node statement
\* and is no endpoint of a channel edge, and whether a key is realized depends
\* only on the other pids that hold it: one channel edge if exactly two of
\* them do, none otherwise.
KernelThreadExclusion ==
    pc = "done" =>
        /\ \A pid \in KernelPids :
              /\ PidId(pid) \notin NodeIds
              /\ \A i \in Where(out.edges, IsChannelEdge) :
                    PidId(pid) \notin {out.edges[i].a, out.edges[i].b}
        /\ \A c \in ChannelClasses : \A k \in KeysOf(Parsed.file_info, c) :
              Cardinality(EdgesFor(c, k)) =
                  IF Cardinality(HoldersIn(Parsed.file_info, c, k) \ KernelPids) = 2
                  THEN 1 ELSE 0

\* C2 witness: a kernel thread and exactly two real processes hold unix key
\* 5, and the output has the one edge between the real two
KernelThreadExclusionWitness ==
    /\ pc = "done"
    /\ Cardinality(KernelPids) = 1
    /\ Cardinality(HoldersIn(Parsed.file_info, "unix", IntV(5))) = 3
    /\ KernelPids \subseteq HoldersIn(Parsed.file_info, "unix", IntV(5))
    /\ Cardinality(EdgesFor("unix", IntV(5))) = 1

-----------------------------------------------------------------------------
(* C3: the two ends of TCP and UDP connections, and listening sockets      *)

TA == <<"f6", "tIPv4", "PTCP", "nA:80->B:12", "au">>

TB == <<"f6", "tIPv4", "PTCP", "nB:12->A:80", "au">>

TL == <<"f7", "tIPv4", "PTCP", "nA:80", "au">>

DA == <<"f8", "tIPv6", "PUDP", "nA:80->B:12", "au">>

DB == <<"f8", "tIPv6", "PUDP", "nB:12->A:80", "au">>

NetBlocks ==
    With(Heads, {TA, TB}) \cup With({P2, P3}, {TL}) \cup {P2 \o DA, P3 \o DB, P4 \o DB}

InitNet == InitWith(Streams(NetBlocks))

SpecNet == InitNet /\ [][Next]_vars

\* a retained descriptor of type IPv4 or IPv6 with a text name
NetDescriptors ==
    {d \in Descriptors(file_info) : IsNetType(Get(d[3], "t")) /\ IsStr(Get(d[3], "n"))}

\* n2 is 'Y->X' where n1 is 'X->Y'
Reversed(n1, n2) ==
    HasSeparator(n1) /\ n2 = Split1(n1)[2] \o Separator \o Split1(n1)[1]

\* "tcp" or "udp", by the protocol attribute
Protocol(fields) == IF Get(fields, "P") = StrV("TCP") THEN "tcp" ELSE "udp"

\* the pids filed in partition part under some key together with pid
FiledWith(part, pid) ==
    UNION {{part[k][2][j][1] : j \in 1..Len(part[k][2])} :
              k \in {x \in 1..Len(part) : Has(part[x][2], pid)}}

\* the entries (key, pid, fields) of a partition
FiledUnder(part) ==
    UNION {{<<part[k][1], part[k][2][j][1], part[k][2][j][2]>> : j \in 1..Len(part[k][2])} :
              k \in 1..Len(part)}

\* the channel edges of class c between two pids
EdgesBetween(c, p1, p2) ==
    {i \in Where(out.edges, IsChannelEdge) :
        /\ {out.edges[i].a, out.edges[i].b} = {PidId(p1), PidId(p2)}
        /\ \E k \in KeysIn(c) : out.edges[i].label = c \o ":\\n" \o Str(k)}

\* C3: descriptors named 'X->Y' and 'Y->X' with the same protocol are filed
\* under one key; held by two different pids and by no third, they give
\* exactly one edge of that protocol's class between the two; a descriptor
\* whose name has no '->' is filed under no key.
CanonicalNetKeying ==
    /\ pc \in {"linked", "done"} =>
          /\ \A d1 \in NetDescriptors : \A d2 \in NetDescriptors :
                (Reversed(d1[3]["n"][2], d2[3]["n"][2]) /\ Protocol(d1[3]) = Protocol(d2[3]))
                    => d2[1] \in FiledWith(links[Protocol(d1[3])], d1[1])
          /\ \A c \in {"tcp", "udp"} : \A e \in FiledUnder(links[c]) :
                /\ HasSeparator(e[3]["n"][2])
                /\ <<e[2], e[3]>> \in {<<d[1], d[3]>> : d \in NetDescriptors}
    /\ pc = "done" =>
          \A d1 \in NetDescriptors : \A d2 \in NetDescriptors :
              (/\ Reversed(d1[3]["n"][2], d2[3]["n"][2])
               /\ Protocol(d1[3]) = Protocol(d2[3])
               /\ d1[1] # d2[1]
               /\ Holders(Protocol(d1[3]), KeyOf(d1[3])) = {d1[1], d2[1]})
                  => Cardinality(EdgesBetween(Protocol(d1[3]), d1[1], d2[1])) = 1

\* C3 witness: 'A:80->B:12' in one process and 'B:12->A:80' in another, both
\* TCP, next to a listening socket 'A:80', with the one tcp edge in the output
CanonicalNetKeyingWitness ==
    /\ pc = "done"
    /\ \E d1 \in NetDescriptors : \E d2 \in NetDescriptors :
          /\ d1[3]["n"] = StrV("A:80->B:12")
          /\ d2[3]["n"] = StrV("B:12->A:80")
          /\ Protocol(d1[3]) = "tcp" /\ Protocol(d2[3]) = "tcp"
          /\ d1[1] # d2[1]
          /\ Cardinality(EdgesBetween("tcp", d1[1], d2[1])) = 1
    /\ \E d \in NetDescriptors : ~HasSeparator(d[3]["n"][2])
    /\ Cardinality(Where(out.edges, IsChannelEdge)) = 1

-----------------------------------------------------------------------------
(* C9: streams of single lines, with and without a process context         *)

RawBlocks ==
    {<<"p2">>, <<"R1">>, <<"Lx">>, <<"f3">>, <<"tunix">>, <<"i5">>, <<"au">>, P3 \o U}

InitRaw == InitWith(Streams(RawBlocks))

SpecRaw == InitRaw /\ [][Next]_vars

\* the stream has an attribute line or an 'f' line before its first 'p' line
ContextLess == lines # <<>> /\ lines[1] # "" /\ Char(lines[1], 1) # "p"

\* C9: when an attribute line or a descriptor-start line comes before any
\* process-start line, the run ends in a fatal error raised at that line and
\* nothing is ever printed, whatever the rest of the stream is.
ContextLessIsFatal ==
    ContextLess =>
        /\ pc \in {"start", "failed"}
        /\ out = NoOutput
        /\ pc = "failed" => err = [kind |-> "UnboundLocalError", at |-> 1]

\* C9 witness: a stream that opens with a descriptor-start line and goes on
\* with a complete process has failed
ContextLessIsFatalWitness ==
    /\ pc = "failed"
    /\ Char(lines[1], 1) = "f"
    /\ \E i \in 2..Len(lines) : lines[i] = "p3"

-----------------------------------------------------------------------------
(* C4: two processes on one unix socket, with every kind of access mode    *)

UW == <<"f3", "tunix", "i5", "aw">>

UR == <<"f3", "tunix", "i5", "ar">>

US == <<"f3", "tunix", "i5", "a ">>

UN == <<"f3", "tunix", "i5">>

DirBlocks == With({P2, P3}, {UW, UR, U, US, UN})

InitDir == InitWith(Streams(DirBlocks))

SpecDir == InitDir /\ [][Next]_vars

\* the keys of class c that exactly two retained pids hold
RealizedKeys(c) == {k \in KeysIn(c) : Cardinality(Holders(c, k)) = 2}

\* the direction the access mode of the chosen participant stands for
DirectionOf(a) ==
    IF a = StrV("w") THEN "forward" ELSE IF a = StrV("r") THEN "backward" ELSE "both"

\* C4: every realized link is rendered, from the chosen participant to the
\* other one, with the direction its access mode stands for: 'w' forward, 'r'
\* backward, anything else, an absent access mode included, both; the run
\* produces output.
DirectionMapping ==
    (pc \in {"done", "failed"} /\ \E c \in ChannelClasses : RealizedKeys(c) # {}) =>
        /\ pc = "done"
        /\ \A c \in ChannelClasses : \A k \in RealizedKeys(c) :
              \A i \in EdgesFor(c, k) :
                  \E d \in Descriptors(file_info) :
                      /\ ClassOf(d[3]) = c /\ KeyOf(d[3]) = k
                      /\ PidId(d[1]) = out.edges[i].a
                      /\ out.edges[i].dir = DirectionOf(Get(d[3], "a"))

-----------------------------------------------------------------------------
(* C5, C6, C10: processes with and without descriptors and parents         *)

ProcHeads ==
    {<<"p2", r, "Lx">> : r \in {"R0", "R1", "R3", "R4"}} \cup
    {<<"p3", r, "Lx">> : r \in {"R1", "R2"}}

ProcBlocks == With(ProcHeads, {<<>>, U}) \cup With({P4}, {K, U})

InitProc == InitWith(Streams(ProcBlocks))

SpecProc == InitProc /\ [][Next]_vars

\* the node statements emitted for a pid
NodesFor(pid) == {i \in 1..Len(out.nodes) : out.nodes[i].id = PidId(pid)}

\* C5: every process record that is not a kernel thread, one without any
\* descriptor included, has exactly one node statement in the output.
OneNodePerProcess ==
    pc = "done" =>
        \A pid \in ProcessPids \ KernelPids : Cardinality(NodesFor(pid)) = 1

\* the ancestry edges that end at a pid
ParentEdgesTo(pid) ==
    {i \in Where(out.edges, IsParentEdge) : out.edges[i].b = PidId(pid)}

\* C6: a process with a node statement has exactly one ancestry edge, from
\* its parent, if its parent reference is present and is not 1 (0 gives the
\* edge as well), and has no ancestry edge otherwise.
AncestryEdges ==
    pc = "done" =>
        \A pid \in {p \in ProcessPids : NodesFor(p) # {}} :
            LET tags == At(Parsed.proc_info, pid)
            IN  IF "R" \in DOMAIN tags /\ tags["R"] # IntV(NoParent)
                THEN /\ Cardinality(ParentEdgesTo(pid)) = 1
                     /\ \A i \in ParentEdgesTo(pid) : out.edges[i].a = PidId(tags["R"])
                ELSE ParentEdgesTo(pid) = {}

\* C10: both endpoints of every edge of the output, ancestry edges and
\* channel edges alike, are pids that have a node statement in that output.
NoDanglingEndpoints ==
    pc = "done" =>
        \A i \in 1..Len(out.edges) :
            out.edges[i].a \in NodeIds /\ out.edges[i].b \in NodeIds

-----------------------------------------------------------------------------
(* C7: the same records in another order                                   *)

UR4 == <<"f4", "tunix", "i5", "ar">>

OrderBlocks == {P2 \o UW, P2 \o UW \o UR4, P2 \o U, P3 \o UR, P3 \o U, P4 \o U}

InitOrder == InitWith(Streams(OrderBlocks))

SpecOrder == InitOrder /\ [][Next]_vars

\* lines 30-39 as one function of the input: generate_dot's result or the error
RunOf(ls) ==
    LET p == parse_lsof(ls)
    IN  IF p.err # "" THEN [nodes |-> <<>>, edges |-> <<>>, err |-> p.err]
        ELSE LET fi == FilterPids(p.file_info, find_kernel_threads(p.file_info))
                 ln == find_links(fi)
             IN  IF ln.err # "" THEN [nodes |-> <<>>, edges |-> <<>>, err |-> ln.err]
                 ELSE generate_dot(p.proc_info, fi, ln)

Range(seq) == {seq[i] : i \in 1..Len(seq)}

\* the set of node statements and the set of edge statements of a result
Statements(r) == [nodes |-> Range(r.nodes), edges |-> Range(r.edges)]

RECURSIVE SplitAt(_, _)
\* the stream cut before every line whose field character is c
SplitAt(ls, c) ==
    IF ls = <<>> THEN <<>>
    ELSE LET rest == SplitAt(Tail(ls), c)
         IN  IF rest # <<>> /\ Char(rest[1][1], 1) # c
             THEN <<<<Head(ls)>> \o rest[1]>> \o Tail(rest)
             ELSE <<<<Head(ls)>>>> \o rest

Perms(n) == {f \in [1..n -> 1..n] : \A i \in 1..n : \A j \in 1..n : f[i] = f[j] => i = j}

Permute(seq, f) == [i \in 1..Len(seq) |-> seq[f[i]]]

\* the streams that list the processes of ls in another order
ProcessReorderings(ls) ==
    {Flatten(Permute(SplitAt(ls, "p"), f)) : f \in Perms(Len(SplitAt(ls, "p")))}

\* a process block with its descriptors in the order g
ReorderDescriptors(block, g) ==
    LET parts == SplitAt(block, "f")
    IN  parts[1] \o Flatten(Permute(Tail(parts), g))

\* the streams that list the descriptors of one process of ls in another order
DescriptorReorderings(ls) ==
    LET blocks == SplitAt(ls, "p")
    IN  UNION {{Flatten([i \in 1..Len(blocks) |->
                    IF i = j THEN ReorderDescriptors(blocks[j], g) ELSE blocks[i]]) :
                  g \in Perms(Len(SplitAt(blocks[j], "f")) - 1)} : j \in 1..Len(blocks)}

\* every process id heads one block of the stream, every descriptor id one
\* block of its process
OneBlockPerRecord(ls) ==
    LET blocks == SplitAt(ls, "p")
    IN  /\ \A i \in 1..Len(blocks) : \A j \in 1..Len(blocks) :
              blocks[i][1] = blocks[j][1] => i = j
        /\ \A b \in 1..Len(blocks) :
              LET parts == SplitAt(blocks[b], "f")
              IN  \A i \in 2..Len(parts) : \A j \in 2..Len(parts) :
                      parts[i][1] = parts[j][1] => i = j

\* C7: a stream with the same process and descriptor records in another
\* order of processes, or of descriptors within a process, gives the same set
\* of node statements and the same set of edge statements.
OrderIndependence ==
    (pc = "done" /\ OneBlockPerRecord(lines)) =>
        \A ls \in ProcessReorderings(lines) \cup DescriptorReorderings(lines) :
            /\ RunOf(ls).err = ""
            /\ Statements(RunOf(ls)) = Statements(out)

-----------------------------------------------------------------------------
(* C8: descriptors that lack the attribute their class is keyed by         *)

UX == <<"f3", "tunix", "au">>

FX == <<"f5", "tFIFO", "ar">>

NX == <<"f6", "tIPv4", "PTCP", "au">>

MissingBlocks == With({P2, P3}, {U, UX, FX, NX})

InitMissing == InitWith(Streams(MissingBlocks))

SpecMissing == InitMissing /\ [][Next]_vars

\* the descriptor has the attribute its class takes the key from
HasKeyAttribute(fields) ==
    LET t == Get(fields, "t")
    IN  IF t = StrV("unix") THEN "i" \in DOMAIN fields \/ "d" \in DOMAIN fields
        ELSE IF t = StrV("FIFO") THEN "i" \in DOMAIN fields
        ELSE IF IsNetType(t) THEN "n" \in DOMAIN fields
        ELSE TRUE

\* C8: a descriptor without the name or inode its class is keyed by is filed
\* under no key, so it never becomes the end of an edge, and the run goes on
\* to print its output.
MissingAttributeExcludes ==
    /\ pc # "failed"
    /\ \A c \in ChannelClasses : \A e \in FiledUnder(links[c]) : HasKeyAttribute(e[3])

=============================================================================
